---- MODULE Spec2Model ----
(***************************************************************************)
(* A model of the c64 assembler (src/src/assembler/assembler.js) and of    *)
(* the c64 CPU emulator (src/src/emulator/emulator.js).                    *)
(*                                                                         *)
(* JavaScript values.  The registers hold JavaScript numbers, which the    *)
(* code never masks to 8 bits, and may come to hold the values `undefined` *)
(* and NaN.  Numbers are modelled by the integers; within the bounds of    *)
(* the model every number stays far below 2^29 in magnitude, where the     *)
(* 32-bit conversion of the bitwise operators is the identity.  The two    *)
(* non-numbers are encoded by two integers above that range.               *)
(*                                                                         *)
(* Memory.  `new Uint8Array(0x10000)` is modelled by the function that     *)
(* maps the addresses holding a nonzero byte to that byte; every other     *)
(* address in 0..0xFFFF reads 0.                                           *)
(*                                                                         *)
(* Text.  A string is a sequence of one-character strings.                 *)
(***************************************************************************)
EXTENDS Integers, Sequences, FiniteSets, TLC

(***************************************************************************)
(* Bounds of the model.                                                    *)
(***************************************************************************)
MaxLines == 2     \* lines of a multi-line source text
MaxChunks == 3    \* instructions of a hand-written ROM
MaxPresets == 2   \* writes the caller makes through getState() before load()
MaxTicks == 4     \* calls of tick() on one CPU
MaxRunFrom == 0   \* calls of tick() before a call of run()

(***************************************************************************)
(* JavaScript numbers, undefined and NaN.                                  *)
(***************************************************************************)
Two30 == 2 ^ 30
Two29 == 2 ^ 29
undefined == Two30 + 1
NaN == Two30 + 2

IsNumber(v) == v < Two30

\* ToInt32 of the bitwise operators: undefined and NaN convert to 0.
ToInt32(v) == IF IsNumber(v) THEN v ELSE 0

\* a + b on numbers; undefined converts to NaN and NaN is absorbing.
Add(a, b) == IF IsNumber(a) /\ IsNumber(b) THEN a + b ELSE NaN

\* a - b
Sub(a, b) == IF IsNumber(a) /\ IsNumber(b) THEN a - b ELSE NaN

RECURSIVE AndBits(_, _)
AndBits(a, b) ==
    IF a = 0 \/ b = 0 THEN 0
    ELSE (a % 2) * (b % 2) + 2 * AndBits(a \div 2, b \div 2)

RECURSIVE OrBits(_, _)
OrBits(a, b) ==
    IF a = 0 THEN b
    ELSE IF b = 0 THEN a
    ELSE (IF a % 2 = 1 \/ b % 2 = 1 THEN 1 ELSE 0) + 2 * OrBits(a \div 2, b \div 2)

RECURSIVE XorBits(_, _)
XorBits(a, b) ==
    IF a = 0 THEN b
    ELSE IF b = 0 THEN a
    ELSE ((a + b) % 2) + 2 * XorBits(a \div 2, b \div 2)

\* Two's complement: the bit pattern of a signed number and back.
Unsigned(v) == ToInt32(v) % Two30
Signed(u) == IF u >= Two29 THEN u - Two30 ELSE u

\* a & b, a | b, a ^ b, a << n, a >> n
BitAnd(a, b) == Signed(AndBits(Unsigned(a), Unsigned(b)))
BitOr(a, b) == Signed(OrBits(Unsigned(a), Unsigned(b)))
BitXor(a, b) == Signed(XorBits(Unsigned(a), Unsigned(b)))
ShiftLeft(a, n) == ToInt32(a) * (2 ^ n)
ShiftRight(a, n) == ToInt32(a) \div (2 ^ n)

(***************************************************************************)
(* The Uint8Array.                                                         *)
(***************************************************************************)
MEMORY_SIZE == 65536

InRange(index) == index >= 0 /\ index < MEMORY_SIZE

\* A store that keeps the number as it is.
ToUint8_unmasked(v) == IF IsNumber(v) THEN v ELSE 0

\* The conversion a typed array applies to a stored value.
ToUint8(v) == IF IsNumber(v) THEN v % 256 ELSE 0

\* memory[index]: undefined outside the array.
MemGet(memory, index) ==
    IF index \in DOMAIN memory THEN memory[index]
    ELSE IF InRange(index) THEN 0
    ELSE undefined

\* memory[index] = value: a store outside the array is ignored.
MemSet(memory, index, value) ==
    IF ~InRange(index) THEN memory
    ELSE IF ToUint8(value) = 0
         THEN [a \in DOMAIN memory \ {index} |-> memory[a]]
         ELSE [a \in DOMAIN memory \cup {index} |->
                  IF a = index THEN ToUint8(value) ELSE memory[a]]

(***************************************************************************)
(* emulator.js: addressing modes.                                          *)
(***************************************************************************)
START_PROGRAM == 512

\* memory[at] | memory[at + 1] << 8
WordAt(memory, at) ==
    BitOr(MemGet(memory, at), ShiftLeft(MemGet(memory, Add(at, 1)), 8))

absolute(s) == WordAt(s.memory, s.programCounter)

absoluteX(s) == WordAt(s.memory, Add(s.programCounter, s.X))

absoluteY(s) == WordAt(s.memory, Add(s.programCounter, s.Y))

zeroPage(s) == MemGet(s.memory, s.programCounter)

\* The zeroPageX formula without its mask.
zeroPageX_unmasked(s) == Add(MemGet(s.memory, s.programCounter), s.X)

zeroPageX(s) == BitAnd(Add(MemGet(s.memory, s.programCounter), s.X), 255)

zeroPageY(s) == BitAnd(Add(MemGet(s.memory, s.programCounter), s.Y), 255)

\* The immediate formula, one byte late.
immediate_next(s) == Add(s.programCounter, 1)

immediate(s) == s.programCounter

relative(s) == Add(s.programCounter, MemGet(s.memory, s.programCounter))

indirect(s) == MemGet(s.memory, WordAt(s.memory, s.programCounter))

indexedIndirect(s) ==
    WordAt(s.memory, WordAt(s.memory, Add(s.programCounter, s.X)))

indirectIndexed(s) ==
    WordAt(s.memory, Add(WordAt(s.memory, s.programCounter), s.Y))

\* addressModes[mode].getAddress(s)
getAddress(mode, s) ==
    CASE mode = "absolute" -> absolute(s)
      [] mode = "absoluteX" -> absoluteX(s)
      [] mode = "absoluteY" -> absoluteY(s)
      [] mode = "zeroPage" -> zeroPage(s)
      [] mode = "zeroPageX" -> zeroPageX(s)
      [] mode = "zeroPageY" -> zeroPageY(s)
      [] mode = "immediate" -> immediate(s)
      [] mode = "relative" -> relative(s)
      [] mode = "indirect" -> indirect(s)
      [] mode = "indexedIndirect" -> indexedIndirect(s)
      [] mode = "indirectIndexed" -> indirectIndexed(s)

\* Every addressing mode taken to consume one byte.
bytes_allOne(mode) == 1

\* addressModes[mode].bytes
bytes(mode) ==
    CASE mode \in {"absolute", "absoluteX", "absoluteY", "indirect"} -> 2
      [] mode \in {"zeroPage", "zeroPageX", "zeroPageY", "immediate",
                   "relative", "indexedIndirect", "indirectIndexed"} -> 1

(***************************************************************************)
(* emulator.js: the stack.                                                 *)
(***************************************************************************)
STACK_PAGE == 256

push(s, value) ==
    [s EXCEPT !.memory = MemSet(s.memory, Add(s.stackPointer, STACK_PAGE), value),
              !.stackPointer = Sub(s.stackPointer, 1)]

\* The state after pop(state); the value popped is popValue(s).
pop(s) == [s EXCEPT !.stackPointer = Add(s.stackPointer, 1)]
popValue(s) == MemGet(s.memory, Add(Add(s.stackPointer, 1), STACK_PAGE))

(***************************************************************************)
(* emulator.js: instructionTypes.                                          *)
(***************************************************************************)
ROL_value(oldValue) ==
    BitOr(ShiftLeft(oldValue, 1), ShiftRight(BitAnd(oldValue, 128), 7))

ROR_value(oldValue) ==
    BitOr(ShiftRight(oldValue, 1), ShiftLeft(BitAnd(oldValue, 1), 7))

\* The decrement without the wrap at 0.
DEX_noWrap(v) == Sub(v, 1)

\* The value DEX gives X and DEY gives Y.
DEX_value(v) == IF v = 0 THEN 255 ELSE Sub(v, 1)

\* The pull that drops the byte it pops.
PLP_discard(s) == pop(s)

\* PLP: state.statusRegister = pop(state)
PLP(s) == [pop(s) EXCEPT !.statusRegister = popValue(s)]

instructionType(type, s, address) ==
    LET m == MemGet(s.memory, address)
        store(v) == [s EXCEPT !.memory = MemSet(s.memory, address, v)]
    IN CASE type = "ADC" -> [s EXCEPT !.A = Add(s.A, m)]
         [] type = "AND" -> [s EXCEPT !.A = BitAnd(s.A, m)]
         [] type = "ASL" -> [s EXCEPT !.A = ShiftLeft(m, 1)]
         [] type = "ASL_A" -> [s EXCEPT !.A = ShiftLeft(s.A, 1)]
         [] type = "DEC" -> store(Sub(m, 1))
         [] type = "DEX" -> [s EXCEPT !.X = DEX_value(s.X)]
         [] type = "DEY" -> [s EXCEPT !.Y = DEX_value(s.Y)]
         [] type = "EOR" -> [s EXCEPT !.A = BitXor(s.A, m)]
         [] type = "INC" -> store(Add(m, 1))
         [] type = "INX" -> [s EXCEPT !.X = Add(s.X, 1)]
         [] type = "INY" -> [s EXCEPT !.Y = Add(s.Y, 1)]
         [] type = "LDA" -> [s EXCEPT !.A = m]
         [] type = "LDX" -> [s EXCEPT !.X = m]
         [] type = "LDY" -> [s EXCEPT !.Y = m]
         [] type = "LSR" -> store(ShiftRight(m, 1))
         [] type = "LSR_A" -> [s EXCEPT !.A = ShiftRight(s.A, 1)]
         [] type = "ORA" -> [s EXCEPT !.A = BitOr(s.A, m)]
         [] type = "PHA" -> push(s, s.A)
         [] type = "PHP" -> push(s, s.statusRegister)
         [] type = "PLA" -> [pop(s) EXCEPT !.A = popValue(s)]
         [] type = "PLP" -> PLP(s)
         [] type = "ROL" -> store(ROL_value(m))
         [] type = "ROL_A" -> [s EXCEPT !.A = ROL_value(s.A)]
         [] type = "ROR" -> store(ROR_value(m))
         [] type = "ROR_A" -> [s EXCEPT !.A = ROR_value(s.A)]
         [] type = "SBC" -> [s EXCEPT !.A = Sub(s.A, m)]
         [] type = "STA" -> store(s.A)
         [] type = "STX" -> store(s.X)
         [] type = "STY" -> store(s.Y)
         [] type = "TAX" -> [s EXCEPT !.X = s.A]
         [] type = "TAY" -> [s EXCEPT !.Y = s.A]
         [] type = "TSX" -> [s EXCEPT !.X = s.stackPointer]
         [] type = "TXA" -> [s EXCEPT !.A = s.X]
         [] type = "TXS" -> [s EXCEPT !.stackPointer = s.X]
         [] type = "TYA" -> [s EXCEPT !.A = s.Y]

makeState ==
    [memory |-> <<>>,
     programCounter |-> START_PROGRAM,
     statusRegister |-> 0,
     stackPointer |-> 255,
     X |-> 0,
     Y |-> 0,
     A |-> 0]
(***************************************************************************)
(* emulator.js: makeInstructions.  Each registration is                    *)
(* <<instruction type, opcode, addressing mode>>, in the order of the      *)
(* source; "none" is a registration without an addressing mode.            *)
(***************************************************************************)
registrations ==
    <<
       <<"ADC", 97, "indexedIndirect">>,    \* 0x61
       <<"ADC", 101, "zeroPage">>,    \* 0x65
       <<"ADC", 105, "immediate">>,    \* 0x69
       <<"ADC", 109, "absolute">>,    \* 0x6D
       <<"ADC", 113, "indirectIndexed">>,    \* 0x71
       <<"ADC", 117, "zeroPageX">>,    \* 0x75
       <<"ADC", 121, "absoluteY">>,    \* 0x79
       <<"ADC", 125, "absoluteX">>,    \* 0x7D
       <<"AND", 33, "indexedIndirect">>,    \* 0x21
       <<"AND", 37, "zeroPage">>,    \* 0x25
       <<"AND", 41, "immediate">>,    \* 0x29
       <<"AND", 45, "absolute">>,    \* 0x2D
       <<"AND", 49, "indirectIndexed">>,    \* 0x31
       <<"AND", 53, "zeroPageX">>,    \* 0x35
       <<"AND", 57, "absoluteY">>,    \* 0x39
       <<"AND", 61, "absoluteX">>,    \* 0x3D
       <<"ASL", 6, "zeroPage">>,    \* 0x06
       <<"ASL", 14, "absolute">>,    \* 0x0E
       <<"ASL", 22, "zeroPageX">>,    \* 0x16
       <<"ASL", 30, "absoluteX">>,    \* 0x1E
       <<"ASL_A", 10, "none">>,    \* 0x0A
       <<"DEC", 198, "zeroPage">>,    \* 0xC6
       <<"DEC", 214, "zeroPageX">>,    \* 0xD6
       <<"DEC", 206, "absolute">>,    \* 0xCE
       <<"DEC", 222, "absoluteX">>,    \* 0xDE
       <<"DEX", 202, "none">>,    \* 0xCA
       <<"DEY", 136, "none">>,    \* 0x88
       <<"EOR", 73, "immediate">>,    \* 0x49
       <<"EOR", 69, "zeroPage">>,    \* 0x45
       <<"EOR", 85, "zeroPageX">>,    \* 0x55
       <<"EOR", 77, "absolute">>,    \* 0x4D
       <<"EOR", 93, "absoluteY">>,    \* 0x5D
       <<"EOR", 89, "absoluteX">>,    \* 0x59
       <<"EOR", 65, "indexedIndirect">>,    \* 0x41
       <<"EOR", 81, "indirectIndexed">>,    \* 0x51
       <<"INC", 230, "zeroPage">>,    \* 0xE6
       <<"INC", 246, "zeroPageX">>,    \* 0xF6
       <<"INC", 238, "absolute">>,    \* 0xEE
       <<"INC", 254, "absoluteX">>,    \* 0xFE
       <<"INX", 232, "none">>,    \* 0xE8
       <<"INY", 200, "none">>,    \* 0xC8
       <<"LDA", 169, "immediate">>,    \* 0xA9
       <<"LDA", 165, "zeroPage">>,    \* 0xA5
       <<"LDA", 181, "zeroPageX">>,    \* 0xB5
       <<"LDA", 173, "absolute">>,    \* 0xAD
       <<"LDA", 189, "absoluteY">>,    \* 0xBD
       <<"LDA", 185, "absoluteX">>,    \* 0xB9
       <<"LDA", 161, "indexedIndirect">>,    \* 0xA1
       <<"LDA", 177, "indirectIndexed">>,    \* 0xB1
       <<"LDX", 162, "immediate">>,    \* 0xA2
       <<"LDX", 166, "zeroPage">>,    \* 0xA6
       <<"LDX", 182, "zeroPageY">>,    \* 0xB6
       <<"LDX", 174, "absolute">>,    \* 0xAE
       <<"LDX", 190, "absoluteY">>,    \* 0xBE
       <<"LDY", 160, "immediate">>,    \* 0xA0
       <<"LDY", 164, "zeroPage">>,    \* 0xA4
       <<"LDY", 180, "zeroPageX">>,    \* 0xB4
       <<"LDY", 172, "absolute">>,    \* 0xAC
       <<"LDY", 188, "absoluteX">>,    \* 0xBC
       <<"LSR", 70, "zeroPage">>,    \* 0x46
       <<"LSR", 86, "zeroPageX">>,    \* 0x56
       <<"LSR", 78, "absolute">>,    \* 0x4E
       <<"LSR", 94, "absoluteX">>,    \* 0x5E
       <<"LSR_A", 74, "none">>,    \* 0x4A
       <<"ORA", 9, "immediate">>,    \* 0x09
       <<"ORA", 5, "zeroPage">>,    \* 0x05
       <<"ORA", 21, "zeroPageX">>,    \* 0x15
       <<"ORA", 13, "absolute">>,    \* 0x0D
       <<"ORA", 29, "absoluteY">>,    \* 0x1D
       <<"ORA", 25, "absoluteX">>,    \* 0x19
       <<"ORA", 1, "indexedIndirect">>,    \* 0x01
       <<"ORA", 17, "indirectIndexed">>,    \* 0x11
       <<"PHA", 72, "none">>,    \* 0x48
       <<"PHP", 8, "none">>,    \* 0x08
       <<"PLA", 104, "none">>,    \* 0x68
       <<"PLP", 40, "none">>,    \* 0x28
       <<"ROL", 38, "zeroPage">>,    \* 0x26
       <<"ROL", 54, "zeroPageX">>,    \* 0x36
       <<"ROL", 46, "absolute">>,    \* 0x2E
       <<"ROL", 62, "absoluteX">>,    \* 0x3E
       <<"ROL_A", 42, "none">>,    \* 0x2A
       <<"ROR", 102, "zeroPage">>,    \* 0x66
       <<"ROR", 118, "zeroPageX">>,    \* 0x76
       <<"ROR", 110, "absolute">>,    \* 0x6E
       <<"ROR", 126, "absoluteX">>,    \* 0x7E
       <<"ROR_A", 106, "none">>,    \* 0x6A
       <<"SBC", 233, "immediate">>,    \* 0xE9
       <<"SBC", 229, "zeroPage">>,    \* 0xE5
       <<"SBC", 245, "zeroPageX">>,    \* 0xF5
       <<"SBC", 237, "absolute">>,    \* 0xED
       <<"SBC", 253, "absoluteY">>,    \* 0xFD
       <<"SBC", 249, "absoluteX">>,    \* 0xF9
       <<"SBC", 225, "indexedIndirect">>,    \* 0xE1
       <<"SBC", 241, "indirectIndexed">>,    \* 0xF1
       <<"STA", 133, "zeroPage">>,    \* 0x85
       <<"STA", 149, "zeroPageX">>,    \* 0x95
       <<"STA", 141, "absolute">>,    \* 0x8D
       <<"STA", 157, "absoluteY">>,    \* 0x9D
       <<"STA", 153, "absoluteX">>,    \* 0x99
       <<"STA", 129, "indexedIndirect">>,    \* 0x81
       <<"STA", 145, "indirectIndexed">>,    \* 0x91
       <<"STX", 134, "zeroPage">>,    \* 0x86
       <<"STX", 150, "zeroPageY">>,    \* 0x96
       <<"STX", 142, "absolute">>,    \* 0x8E
       <<"STY", 132, "zeroPage">>,    \* 0x84
       <<"STY", 148, "zeroPageX">>,    \* 0x94
       <<"STY", 140, "absolute">>,    \* 0x8C
       <<"TAX", 170, "none">>,    \* 0xAA
       <<"TAY", 168, "none">>,    \* 0xA8
       <<"TSX", 186, "none">>,    \* 0xBA
       <<"TXA", 138, "none">>,    \* 0x8A
       <<"TXS", 154, "none">>,    \* 0x9A
       <<"TYA", 152, "none">>     \* 0x98
    >>

\* The sparse array `instructions`: a later registration of an opcode
\* replaces an earlier one.
makeInstructions ==
    [opcode \in {registrations[i][2] : i \in DOMAIN registrations} |->
        LET at == {i \in DOMAIN registrations : registrations[i][2] = opcode}
            last == CHOOSE i \in at : \A j \in at : j <= i
        IN [type |-> registrations[last][1], mode |-> registrations[last][3]]]

\* The function registerInstruction stores for (type, mode), applied to s.
registerInstruction(type, mode, s) ==
    IF mode # "none"
    THEN \* const address: the address is resolved once, before the call
         CHOOSE after \in
            {[instructionType(type, s, address)
                 EXCEPT !.programCounter = Add(@, bytes(mode))] :
               address \in {getAddress(mode, s)}} : TRUE
    ELSE instructionType(type, s, undefined)

(***************************************************************************)
(* emulator.js: tick.  tickThrows(s) holds when the call ends in the       *)
(* TypeError of calling the undefined table entry; tick(s) is the state    *)
(* the call leaves, thrown or not.                                         *)
(***************************************************************************)
fetch(s) == MemGet(s.memory, s.programCounter)

tickThrows(s) == fetch(s) \notin DOMAIN makeInstructions

\* The tick that leaves the program counter to the instruction alone.
tick_noIncrement(s) ==
    LET opcode == fetch(s)
    IN IF opcode \in DOMAIN makeInstructions
       THEN registerInstruction(makeInstructions[opcode].type,
                                makeInstructions[opcode].mode, s)
       ELSE s

tick(s) ==
    LET opcode == fetch(s)
        fetched == [s EXCEPT !.programCounter = Add(s.programCounter, 1)]
    IN IF opcode \in DOMAIN makeInstructions
       THEN registerInstruction(makeInstructions[opcode].type,
                                makeInstructions[opcode].mode, fetched)
       ELSE fetched

\* load: state.memory.set(romData, START_PROGRAM)
RECURSIVE load(_, _)
load(s, romData) ==
    IF romData = <<>> THEN s
    ELSE LET n == Len(romData)
             before == load(s, SubSeq(romData, 1, n - 1))
         IN [before EXCEPT !.memory =
                MemSet(before.memory, START_PROGRAM + n - 1, romData[n])]

(***************************************************************************)
(* assembler.js: the mnemonic table.  Each mnemonic maps to its variants   *)
(* <<addressing-mode name, opcode>> in the key order of the source.        *)
(***************************************************************************)
instructions ==
    [ ADC |-> <<<<"immediate", 105>>,
            <<"zeroPage", 101>>, <<"zeroPageX", 117>>, <<"absolute", 109>>,
            <<"absoluteX", 125>>, <<"absoluteY", 121>>,
            <<"indexedIndirect", 97>>, <<"indirectIndexed", 113>>>>,
      AND |-> <<<<"immediate", 41>>,
            <<"zeroPage", 37>>, <<"zeroPageX", 53>>, <<"absolute", 45>>,
            <<"absoluteX", 61>>, <<"absoluteY", 57>>,
            <<"indexedIndirect", 33>>, <<"indirectIndexed", 49>>>>,
      ASL |-> <<<<"accumulator", 10>>,
            <<"zeroPage", 6>>, <<"zeroPageX", 22>>, <<"absolute", 14>>,
            <<"absoluteX", 30>>>>,
      BCC |-> <<<<"relative", 144>>>>,
      BCS |-> <<<<"relative", 176>>>>,
      BEQ |-> <<<<"relative", 240>>>>,
      BIT |-> <<<<"zeroPage", 36>>, <<"absolute", 44>>>>,
      BMI |-> <<<<"relative", 48>>>>,
      BNE |-> <<<<"relative", 208>>>>,
      BPL |-> <<<<"relative", 16>>>>,
      BRK |-> <<>>,
      BVC |-> <<>>,
      BVS |-> <<>>,
      CLC |-> <<>>,
      CLD |-> <<>>,
      CLI |-> <<>>,
      CLV |-> <<>>,
      CMP |-> <<>>,
      CPX |-> <<>>,
      CPY |-> <<>>,
      DEC |-> <<<<"zeroPage", 198>>,
            <<"zeroPageX", 214>>, <<"absolute", 206>>, <<"absoluteX", 222>>>>,
      DEX |-> <<<<"implied", 202>>>>,
      DEY |-> <<<<"implied", 136>>>>,
      EOR |-> <<>>,
      INC |-> <<<<"zeroPage", 230>>,
            <<"zeroPageX", 246>>, <<"absolute", 238>>, <<"absoluteX", 254>>>>,
      INX |-> <<<<"implied", 232>>>>,
      INY |-> <<<<"implied", 200>>>>,
      JMP |-> <<>>,
      JSR |-> <<>>,
      LDA |-> <<<<"immediate", 169>>,
            <<"zeroPage", 165>>, <<"zeroPageX", 181>>, <<"absolute", 173>>,
            <<"absoluteX", 189>>, <<"absoluteY", 185>>,
            <<"indexedIndirect", 161>>, <<"indirectIndexed", 177>>>>,
      LDX |-> <<<<"immediate", 162>>,
            <<"zeroPage", 166>>, <<"zeroPageX", 182>>, <<"absolute", 174>>,
            <<"absoluteX", 190>>>>,
      LDY |-> <<<<"immediate", 160>>,
            <<"zeroPage", 164>>, <<"zeroPageX", 180>>, <<"absolute", 172>>,
            <<"absoluteX", 188>>>>,
      LSR |-> <<>>,
      NOP |-> <<>>,
      ORA |-> <<>>,
      PHA |-> <<>>,
      PHP |-> <<>>,
      PLA |-> <<>>,
      PLP |-> <<>>,
      ROL |-> <<>>,
      ROR |-> <<>>,
      RTI |-> <<>>,
      RTS |-> <<>>,
      SBC |-> <<>>,
      SEC |-> <<>>,
      SED |-> <<>>,
      SEI |-> <<>>,
      STA |-> <<>>,
      STX |-> <<>>,
      STY |-> <<>>,
      TAX |-> <<>>,
      TAY |-> <<>>,
      TSX |-> <<>>,
      TXA |-> <<>>,
      TXS |-> <<>>,
      TYA |-> <<>>]

(***************************************************************************)
(* assembler.js: text.                                                     *)
(***************************************************************************)
Digits == {"0", "1", "2", "3", "4", "5", "6", "7", "8", "9"}
UpperHex == {"A", "B", "C", "D", "E", "F"}
LowerHex == {"a", "b", "c", "d", "e", "f"}
Letters ==
    {"A", "B", "C", "D", "E", "F", "G", "H", "I", "J", "K", "L", "M", "N",
     "O", "P", "Q", "R", "S", "T", "U", "V", "W", "X", "Y", "Z",
     "a", "b", "c", "d", "e", "f", "g", "h", "i", "j", "k", "l", "m", "n",
     "o", "p", "q", "r", "s", "t", "u", "v", "w", "x", "y", "z"}

WordChars == Letters \cup Digits \cup {"_"}                     \* \w
SpaceChars == {" ", "\t"}                                       \* \s
OperandChars == Digits \cup UpperHex \cup {"#", "$", "(", ")", ",", "X", "Y"}
HexAny == Digits \cup UpperHex \cup LowerHex                    \* [\dA-Fa-f]
HexUpper == Digits \cup UpperHex                                \* [\dA-F]

\* The operand of a line that has none: the value undefined, which the
\* regular expressions convert to the text "undefined".
noOperand == <<"undefined">>

\* The text as a string, the key of a table.
RECURSIVE Str(_)
Str(text) == IF text = <<>> THEN "" ELSE Head(text) \o Str(Tail(text))

\* The end of the longest run of characters of `class` that starts at i.
RECURSIVE RunEnd(_, _, _)
RunEnd(text, i, class) ==
    IF i <= Len(text) /\ text[i] \in class
    THEN RunEnd(text, i + 1, class)
    ELSE i

\* string.substring(start, end)
substring(text, start, end) == SubSeq(text, start + 1, end)

hexValue(c) ==
    CASE c \in Digits -> CHOOSE d \in 0..9 : ToString(d) = c
      [] c \in {"A", "a"} -> 10
      [] c \in {"B", "b"} -> 11
      [] c \in {"C", "c"} -> 12
      [] c \in {"D", "d"} -> 13
      [] c \in {"E", "e"} -> 14
      [] c \in {"F", "f"} -> 15

\* parseInt(text, 16): the value of the longest prefix of hexadecimal digits,
\* NaN when there is none.
RECURSIVE hexPrefix(_, _)
hexPrefix(text, n) ==
    IF n = 0 THEN 0
    ELSE 16 * hexPrefix(text, n - 1) + hexValue(text[n])

parseInt16(text) ==
    LET n == RunEnd(text, 1, HexAny) - 1
    IN IF n = 0 THEN NaN ELSE hexPrefix(text, n)

parseByte(left, right, text) ==
    <<parseInt16(substring(text, left + 1, Len(text) - right))>>

\* The word split high byte first.
parseWord_highFirst(left, right, text) ==
    LET value == parseInt16(substring(text, left + 1, Len(text) - right))
    IN <<ShiftRight(value, 8), BitAnd(value, 255)>>

parseWord(left, right, text) ==
    LET value == parseInt16(substring(text, left + 1, Len(text) - right))
    IN <<BitAnd(value, 255), ShiftRight(value, 8)>>

(***************************************************************************)
(* assembler.js: matchers.                                                 *)
(***************************************************************************)
matcherNames ==
    {"accumulator", "implied", "immediate", "zeroPage", "zeroPageX",
     "zeroPageY", "absolute", "absoluteX", "absoluteY", "indirect",
     "indexedIndirect", "indirectIndexed"}

\* text has the n characters hex[1..n] of `class` at from, and `lit` around.
Shaped(text, prefix, n, class, suffix) ==
    /\ Len(text) = Len(prefix) + n + Len(suffix)
    /\ SubSeq(text, 1, Len(prefix)) = prefix
    /\ \A k \in Len(prefix) + 1 .. Len(prefix) + n : text[k] \in class
    /\ SubSeq(text, Len(prefix) + n + 1, Len(text)) = suffix

test(name, text) ==
    CASE name = "accumulator" -> text = <<"A">>
      [] name = "implied" -> text = noOperand
      [] name = "immediate" -> Shaped(text, <<"#", "$">>, 2, HexAny, <<>>)
      [] name = "zeroPage" -> Shaped(text, <<"$">>, 2, HexAny, <<>>)
      [] name = "zeroPageX" -> Shaped(text, <<"$">>, 2, HexAny, <<",", "X">>)
      [] name = "zeroPageY" -> Shaped(text, <<"$">>, 2, HexUpper, <<",", "Y">>)
      [] name = "absolute" -> Shaped(text, <<"$">>, 4, HexUpper, <<>>)
      [] name = "absoluteX" -> Shaped(text, <<"$">>, 4, HexUpper, <<",", "X">>)
      [] name = "absoluteY" -> Shaped(text, <<"$">>, 4, HexUpper, <<",", "Y">>)
      [] name = "indirect" -> Shaped(text, <<"(", "$">>, 4, HexUpper, <<")">>)
      [] name = "indexedIndirect" ->
            Shaped(text, <<"(", "$">>, 2, HexUpper, <<",", "X", ")">>)
      [] name = "indirectIndexed" ->
            Shaped(text, <<"(", "$">>, 2, HexUpper, <<")", ",", "Y">>)

extract(name, text) ==
    CASE name \in {"accumulator", "implied"} -> <<>>
      [] name = "immediate" -> parseByte(1, 0, text)
      [] name = "zeroPage" -> parseByte(0, 0, text)
      [] name \in {"zeroPageX", "zeroPageY"} -> parseByte(0, 2, text)
      [] name = "absolute" -> parseWord(0, 0, text)
      [] name \in {"absoluteX", "absoluteY"} -> parseWord(0, 2, text)
      [] name = "indirect" -> parseWord(1, 1, text)
      [] name \in {"indexedIndirect", "indirectIndexed"} -> parseByte(1, 3, text)

(***************************************************************************)
(* assembler.js: assemble.                                                 *)
(***************************************************************************)
\* line.match(/(\w+)(?:\s+([\dA-F#$(),XY]+))?/): null when the line has no
\* word character.
lineMatch(line) ==
    LET starts == {i \in 1..Len(line) : line[i] \in WordChars}
    IN IF starts = {} THEN [matched |-> FALSE, mnemonic |-> <<>>, operand |-> noOperand]
       ELSE LET first == CHOOSE i \in starts : \A j \in starts : i <= j
                wordEnd == RunEnd(line, first, WordChars)
                spaceEnd == RunEnd(line, wordEnd, SpaceChars)
                operandEnd == RunEnd(line, spaceEnd, OperandChars)
            IN [matched |-> TRUE,
                mnemonic |-> SubSeq(line, first, wordEnd - 1),
                operand |-> IF spaceEnd > wordEnd /\ operandEnd > spaceEnd
                            THEN SubSeq(line, spaceEnd, operandEnd - 1)
                            ELSE noOperand]

returned(value) ==
    [kind |-> "return", value |-> value, error |-> "", message |-> <<>>]
thrown(error, message) ==
    [kind |-> "throw", value |-> <<>>, error |-> error, message |-> message]

\* Object.keys(variants).find(name => matchers[name].test(operand)): the
\* index of the variant found, 0 when none is, -1 when the search reaches a
\* name that has no matcher first.
findVariant(variants, operand) ==
    LET hits == {i \in DOMAIN variants :
                    /\ variants[i][1] \in matcherNames
                    /\ test(variants[i][1], operand)}
        faults == {i \in DOMAIN variants : variants[i][1] \notin matcherNames}
        stops == hits \cup faults
    IN IF stops = {} THEN 0
       ELSE LET i == CHOOSE i \in stops : \A j \in stops : i <= j
            IN IF i \in hits THEN i ELSE -1

\* The callback of lines.map.
encodeLine(line) ==
    LET m == lineMatch(line)
    IN IF ~m.matched THEN thrown("TypeError", <<>>)
       ELSE IF Str(m.mnemonic) \notin DOMAIN instructions
       THEN thrown("TypeError", <<>>)
       ELSE LET variants == instructions[Str(m.mnemonic)]
                matchVariant == findVariant(variants, m.operand)
            IN IF matchVariant = -1 THEN thrown("TypeError", <<>>)
               ELSE IF matchVariant = 0 THEN thrown("Error", line)
               ELSE returned(<<variants[matchVariant][2]>> \o
                             extract(variants[matchVariant][1], m.operand))

\* The encoding of the last line alone.
assemble_lastLine(lines) ==
    IF lines = <<>> THEN returned(<<>>) ELSE encodeLine(lines[Len(lines)])

\* assemble, on the lines string.split('\n') gives.
RECURSIVE assemble(_)
assemble(lines) ==
    IF lines = <<>> THEN returned(<<>>)
    ELSE LET n == Len(lines)
             before == assemble(SubSeq(lines, 1, n - 1))
             encoded == encodeLine(lines[n])
         IN IF before.kind = "throw" THEN before
            ELSE IF encoded.kind = "throw" THEN encoded
            ELSE returned(before.value \o encoded.value)
(***************************************************************************)
(* The inputs of the model.                                                *)
(***************************************************************************)
\* Mnemonics of the source texts: those the table gives a variant, three it
\* gives none and one it does not have.
MnemonicTexts ==
    {<<"A", "D", "C">>,
     <<"A", "N", "D">>,
     <<"A", "S", "L">>,
     <<"B", "C", "C">>,
     <<"B", "I", "T">>,
     <<"D", "E", "C">>,
     <<"D", "E", "X">>,
     <<"D", "E", "Y">>,
     <<"I", "N", "C">>,
     <<"I", "N", "X">>,
     <<"I", "N", "Y">>,
     <<"L", "D", "A">>,
     <<"L", "D", "X">>,
     <<"L", "D", "Y">>,
     <<"B", "R", "K">>,
     <<"E", "O", "R">>,
     <<"P", "H", "A">>,
     <<"F", "O", "O">>}

ByteFields == {<<"2", "3">>, <<"F", "F">>, <<"0", "1">>}
WordFields == {<<"2", "3", "4", "5">>, <<"0", "2", "0", "0">>,
               <<"0", "2", "0", "1">>}

\* Operand texts: every form a matcher accepts, and four none accepts.
OperandTexts ==
    {<<"A">>, <<"$", "1", "2", "3", "4", "5">>, <<"#", "$", "2">>,
     <<"#", "$", "a", "b">>, <<"$", "2", "3", ",", "Z">>}
    \cup {<<"#", "$">> \o b : b \in ByteFields}
    \cup {<<"$">> \o b : b \in ByteFields}
    \cup {<<"$">> \o b \o <<",", "X">> : b \in ByteFields}
    \cup {<<"$">> \o b \o <<",", "Y">> : b \in ByteFields}
    \cup {<<"(", "$">> \o b \o <<",", "X", ")">> : b \in ByteFields}
    \cup {<<"(", "$">> \o b \o <<")", ",", "Y">> : b \in ByteFields}
    \cup {<<"$">> \o w : w \in WordFields}
    \cup {<<"$">> \o w \o <<",", "X">> : w \in WordFields}
    \cup {<<"$">> \o w \o <<",", "Y">> : w \in WordFields}
    \cup {<<"(", "$">> \o w \o <<")">> : w \in WordFields}

AllBytes == {<<h, l>> : h \in HexUpper, l \in HexUpper}

\* Word operands over the digits at the ends of the decimal and the
\* hexadecimal ranges, and word operands with lowercase digits.
WordDigits == {"0", "9", "F"}
SampleWords ==
    {<<a, b, c, d>> : a \in WordDigits, b \in WordDigits,
                      c \in WordDigits, d \in WordDigits}
LowerWords == {<<"2", "3", "a", "b">>, <<"a", "b", "2", "3">>}

Lines ==
    MnemonicTexts
    \cup {m \o <<" ">> \o o : m \in MnemonicTexts, o \in OperandTexts}
    \cup {<<"A", "D", "C", " ", "#", "$">> \o b : b \in AllBytes}
    \cup {<<"L", "D", "A", " ", "$">> \o w : w \in SampleWords \cup LowerWords}
    \cup {<<>>, <<" ", "I", "N", "X">>, <<"I", "N", "X", " ", " ", "A">>}

\* The lines of the texts of more than one line.
CoreLines ==
    {<<"L", "D", "A", " ", "#", "$", "F", "F">>,
     <<"A", "D", "C", " ", "$", "2", "3", "4", "5">>,
     <<"I", "N", "X">>,
     <<"I", "N", "C", " ", "$", "0", "2", "0", "3">>,
     <<"A", "D", "C", " ", "$", "1", "2", "3", "4", "5">>,
     <<"F", "O", "O", " ", "#", "$", "2", "3">>}

RECURSIVE SeqsUpTo(_, _)
SeqsUpTo(S, n) ==
    IF n = 0 THEN {<<>>}
    ELSE LET shorter == SeqsUpTo(S, n - 1)
         IN shorter \cup {q \o <<x>> : q \in shorter, x \in S}

RECURSIVE Flatten(_)
Flatten(qs) == IF qs = <<>> THEN <<>> ELSE Head(qs) \o Flatten(Tail(qs))

Sources ==
    {<<l>> : l \in Lines}
    \cup {t \in SeqsUpTo(CoreLines, MaxLines) : Len(t) > 1}

\* The instructions of the hand-written ROMs: LDA #$FF, SBC #$FF, PHA, PLA,
\* DEX, the unregistered opcode 0x02, PHP, PLP and ROL A.
Chunks ==
    {<<169, 255>>, <<233, 255>>, <<72>>, <<104>>, <<202>>, <<2>>,
     <<8>>, <<40>>, <<42>>}

\* ROMs loaded without the assembler: every opcode byte with the operand
\* $FF, and the sequences of the instructions above.
RawRoms ==
    {<<opcode, 255>> : opcode \in 0..255}
    \cup {Flatten(q) : q \in SeqsUpTo(Chunks, MaxChunks) \ {<<>>}}

\* The stop opcodes given to run: the zero byte after every ROM, the operand
\* $FF and PLA.
StopOpcodes == {0, 255, 104}

\* What the caller writes through getState() before load().
Presets ==
    {<<"X", 0, 1>>, <<"X", 0, 2>>, <<"Y", 0, 2>>, <<"memory", 9030, 7>>,
     <<"X", 0, 255>>, <<"Y", 0, 255>>, <<"memory", 35, 255>>}

(***************************************************************************)
(* The state machine.                                                      *)
(***************************************************************************)
VARIABLES
    source,    \* the lines of the text given to assemble, <<>> before the call
    rom,       \* how the call of assemble ended
    state,     \* the CPU state makeCpu holds
    presets,   \* the number of writes made through getState()
    romData,   \* the bytes given to load, <<>> before the call
    history,   \* the CPU state at the start of each call of tick
    fault,     \* how the last call of tick ended
    running    \* the call of run: its stop opcode, the ticks before it, its end

vars == <<source, rom, state, presets, romData, history, fault, running>>

notRunning == [status |-> "none", stopOpcode |-> 0, from |-> 0]

notCalled == [kind |-> "none", value |-> <<>>, error |-> "", message |-> <<>>]

Init ==
    /\ source = <<>>
    /\ rom = notCalled
    /\ state = makeState
    /\ presets = 0
    /\ romData = <<>>
    /\ history = <<>>
    /\ fault = "none"
    /\ running = notRunning

\* assemble(string)
Assemble ==
    /\ rom = notCalled
    /\ romData = <<>>
    /\ \E lines \in Sources :
          /\ source' = lines
          /\ rom' = assemble(lines)
    /\ UNCHANGED <<state, presets, romData, history, fault, running>>

\* getState() followed by a write of a register or of a byte of memory that
\* is still as makeState left it.
GetState ==
    /\ romData = <<>>
    /\ rom.kind = "return"
    /\ presets < MaxPresets
    /\ \E p \in Presets :
          /\ CASE p[1] = "X" -> state.X = 0
               [] p[1] = "Y" -> state.Y = 0
               [] p[1] = "memory" -> MemGet(state.memory, p[2]) = 0
          /\ state' = CASE p[1] = "X" -> [state EXCEPT !.X = p[3]]
                     [] p[1] = "Y" -> [state EXCEPT !.Y = p[3]]
                     [] p[1] = "memory" ->
                           [state EXCEPT !.memory = MemSet(state.memory, p[2], p[3])]
    /\ presets' = presets + 1
    /\ UNCHANGED <<source, rom, romData, history, fault, running>>

\* load(romData), of the assembled ROM or of a hand-written one.
Load ==
    /\ romData = <<>>
    /\ rom.kind # "throw"
    /\ \E data \in (IF rom.kind = "return" THEN {rom.value} ELSE RawRoms) :
          /\ romData' = data
          /\ state' = load(state, data)
    /\ UNCHANGED <<source, rom, presets, history, fault, running>>

\* tick()
Tick ==
    /\ romData # <<>>
    /\ running = notRunning
    /\ Len(history) < MaxTicks
    /\ history' = Append(history, state)
    /\ state' = tick(state)
    /\ fault' = IF tickThrows(state) THEN "TypeError" ELSE "none"
    /\ UNCHANGED <<source, rom, presets, romData, running>>

runTest_never(s, stopOpcode) == FALSE

\* The test of the loop of run: state.memory[state.programCounter] !== stopOpcode
runTest(s, stopOpcode) == fetch(s) # stopOpcode

\* run({ stopOpcode }): the call, which enters the loop.
Run ==
    /\ romData # <<>>
    /\ running = notRunning
    /\ Len(history) <= MaxRunFrom
    /\ \E stopOpcode \in StopOpcodes :
          running' = [status |-> "running", stopOpcode |-> stopOpcode,
                      from |-> Len(history)]
    /\ UNCHANGED <<source, rom, state, presets, romData, history, fault>>

\* One turn of the loop of run: the test, and either the call of tick, whose
\* TypeError ends the call of run, or the return.
RunLoop ==
    /\ running.status = "running"
    /\ IF runTest(state, running.stopOpcode)
       THEN /\ history' = Append(history, state)
            /\ state' = tick(state)
            /\ fault' = IF tickThrows(state) THEN "TypeError" ELSE "none"
            /\ running' = IF tickThrows(state)
                           THEN [running EXCEPT !.status = "TypeError"]
                           ELSE running
       ELSE /\ running' = [running EXCEPT !.status = "returned"]
            /\ UNCHANGED <<state, history, fault>>
    /\ UNCHANGED <<source, rom, presets, romData>>

Next ==
    \/ Assemble
    \/ GetState
    \/ Load
    \/ Tick
    \/ Run
    \/ RunLoop

Spec == Init /\ [][Next]_vars

\* The CPU alone, on the hand-written ROMs.  The loop of run goes on by
\* itself: once run is called, nothing but the test and the calls of tick
\* decide when it ends.
CpuNext ==
    \/ Load
    \/ Tick
    \/ Run
    \/ RunLoop

FairSpec == Init /\ [][CpuNext]_vars /\ WF_vars(RunLoop)
(***************************************************************************)
(* What the properties speak of.                                           *)
(***************************************************************************)
\* The state the i-th call of tick started from and the state it left.
Before(i) == history[i]
After(i) == IF i < Len(history) THEN history[i + 1] ELSE state

\* The state of the i-th call once the opcode is fetched.
Fetched(i) ==
    [Before(i) EXCEPT !.programCounter = Add(Before(i).programCounter, 1)]

\* One line was assembled, loaded and executed by one call of tick; the CPU
\* was fresh when no write through getState() came before.
OneLineRun ==
    /\ Len(source) = 1
    /\ rom.kind = "return"
    /\ romData = rom.value
    /\ Len(history) = 1
FreshRun == OneLineRun /\ presets = 0

\* The mnemonic of the one line and the variant the assembler found for it.
Mnemonic == Str(lineMatch(source[1]).mnemonic)
Variant ==
    instructions[Mnemonic][findVariant(instructions[Mnemonic],
                                       lineMatch(source[1]).operand)][1]

\* The instruction type and the addressing mode the executor has for a
\* mnemonic's variant, and back.
TypeFor(mnemonic, variant) ==
    IF variant = "accumulator" THEN mnemonic \o "_A" ELSE mnemonic
ModeFor(variant) ==
    IF variant \in {"accumulator", "implied"} THEN "none" ELSE variant
AccumulatorTypes == {"ASL_A", "LSR_A", "ROL_A", "ROR_A"}
MnemonicOf(type) ==
    CASE type = "ASL_A" -> "ASL"
      [] type = "LSR_A" -> "LSR"
      [] type = "ROL_A" -> "ROL"
      [] type = "ROR_A" -> "ROR"
      [] OTHER -> type
VariantOf(type, mode) ==
    IF mode # "none" THEN mode
    ELSE IF type \in AccumulatorTypes THEN "accumulator"
    ELSE "implied"

\* The assembler table gives the mnemonic's variant this opcode.
Encodes(mnemonic, variant, opcode) ==
    /\ mnemonic \in DOMAIN instructions
    /\ \E k \in DOMAIN instructions[mnemonic] :
          instructions[mnemonic][k] = <<variant, opcode>>

\* The executor registers the pair under some opcode.
Executes(mnemonic, variant) ==
    \E opcode \in DOMAIN makeInstructions :
        /\ makeInstructions[opcode].type = TypeFor(mnemonic, variant)
        /\ makeInstructions[opcode].mode = ModeFor(variant)

\* The bytes a variant's operand takes.
OperandWidth(variant) ==
    CASE variant \in {"accumulator", "implied"} -> 0
      [] variant \in {"absolute", "absoluteX", "absoluteY", "indirect"} -> 2
      [] OTHER -> 1

\* The word operand of the one line.
OperandWord == rom.value[2] + 256 * rom.value[3]

\* A state with its program counter left out of a comparison.
Registers(s) == [s EXCEPT !.programCounter = 0]

(***************************************************************************)
(* C1.  The assembler's table and the executor's table are mutual          *)
(* inverses: the opcode the assembler emits for a line is bound by the     *)
(* executor to the same mnemonic's operation with the same addressing      *)
(* mode, and every opcode the executor decodes is the one the assembler    *)
(* table gives that mnemonic and mode.                                     *)
(***************************************************************************)
C1_TablesInverse ==
    /\ OneLineRun =>
          /\ romData[1] \in DOMAIN makeInstructions
          /\ makeInstructions[romData[1]].type = TypeFor(Mnemonic, Variant)
          /\ makeInstructions[romData[1]].mode = ModeFor(Variant)
    /\ \A i \in DOMAIN history :
          fetch(Before(i)) \in DOMAIN makeInstructions =>
             LET entry == makeInstructions[fetch(Before(i))]
             IN Encodes(MnemonicOf(entry.type),
                        VariantOf(entry.type, entry.mode), fetch(Before(i)))

(***************************************************************************)
(* C2.  Round trip: for a (mnemonic, addressing mode) pair both sides      *)
(* implement, one line assembled, loaded into a fresh CPU and executed by  *)
(* one tick leaves the program counter at 0x200 plus the bytes emitted,    *)
(* which are 1 plus the operand width, and leaves the registers and the    *)
(* memory as the mnemonic's operation under that addressing mode does.     *)
(***************************************************************************)
C2_RoundTrip ==
    FreshRun /\ Executes(Mnemonic, Variant) =>
       /\ fault = "none"
       /\ Len(rom.value) = 1 + OperandWidth(Variant)
       /\ state.programCounter = START_PROGRAM + Len(rom.value)
       /\ Registers(state) =
             Registers(instructionType(TypeFor(Mnemonic, Variant), Fetched(1),
                                       getAddress(ModeFor(Variant), Fetched(1))))

C2_Witness ==
    /\ FreshRun
    /\ Mnemonic = "LDA"
    /\ Variant = "absoluteX"
    /\ Executes(Mnemonic, Variant)
    /\ state.programCounter = 515
    /\ state.A = 189

(***************************************************************************)
(* C3.  As stated: "ADC #$bb" assembles to [0x69, b] and leaves A = b      *)
(* after one tick on a fresh CPU; with any other ADC addressing mode A     *)
(* stays 0.                                                                *)
(***************************************************************************)
C3_AdcFresh ==
    FreshRun /\ Mnemonic = "ADC" =>
       IF Variant = "immediate"
       THEN /\ rom.value[1] = 105
            /\ Len(rom.value) = 2
            /\ state.A = rom.value[2]
       ELSE state.A = 0

\* The operand word of an absolute, absoluteX or absoluteY line addresses
\* one of the three bytes of the instruction itself.
AddressesItself ==
    /\ Variant \in {"absolute", "absoluteX", "absoluteY"}
    /\ OperandWord \in START_PROGRAM .. START_PROGRAM + 2

(***************************************************************************)
(* C3, amended.  "ADC #$bb" assembles to [0x69, b] and leaves A = b after  *)
(* one tick on a fresh CPU; with any other ADC addressing mode A stays 0,  *)
(* unless the operand word addresses a byte of the loaded instruction      *)
(* itself (0x200..0x202), and then A is that byte.                         *)
(***************************************************************************)
C3_AdcFreshAmended ==
    FreshRun /\ Mnemonic = "ADC" =>
       IF Variant = "immediate"
       THEN /\ rom.value[1] = 105
            /\ Len(rom.value) = 2
            /\ state.A = rom.value[2]
       ELSE IF AddressesItself
       THEN state.A = rom.value[OperandWord - START_PROGRAM + 1]
       ELSE state.A = 0

C3_Witness ==
    /\ FreshRun
    /\ Mnemonic = "ADC"
    /\ Variant = "immediate"
    /\ rom.value = <<105, 35>>
    /\ state.A = 35

(***************************************************************************)
(* C4.  Absolute,X load: one tick of an assembled "LDA $hhhh,X" loads A    *)
(* with the byte at the operand word plus X.                               *)
(***************************************************************************)
C4_AbsoluteXLoad ==
    OneLineRun /\ Mnemonic = "LDA" /\ Variant = "absoluteX" =>
       state.A = MemGet(Before(1).memory, OperandWord + Before(1).X)

(***************************************************************************)
(* C5.  Stack round trip: PHA followed by PLA leaves A and the stack       *)
(* pointer as they were before the PHA.                                    *)
(***************************************************************************)
C5_StackRoundTrip ==
    \A i \in DOMAIN history :
       /\ i + 1 \in DOMAIN history
       /\ fetch(Before(i)) = 72
       /\ fetch(Before(i + 1)) = 104
       => /\ After(i + 1).A = Before(i).A
          /\ After(i + 1).stackPointer = Before(i).stackPointer

(***************************************************************************)
(* C6.  Zero-page indexed wraparound: the effective address of a           *)
(* zeroPageX (zeroPageY) instruction is the operand byte plus X (Y) modulo *)
(* 256, and lies in 0..255.                                                *)
(***************************************************************************)
C6_ZeroPageWrap ==
    \A i \in DOMAIN history :
       fetch(Before(i)) \in DOMAIN makeInstructions =>
          LET mode == makeInstructions[fetch(Before(i))].mode
              operand == fetch(Fetched(i))
              address == getAddress(mode, Fetched(i))
          IN /\ mode = "zeroPageX" =>
                   /\ address \in 0..255
                   /\ IsNumber(Before(i).X) =>
                         address = (operand + Before(i).X) % 256
             /\ mode = "zeroPageY" =>
                   /\ address \in 0..255
                   /\ IsNumber(Before(i).Y) =>
                         address = (operand + Before(i).Y) % 256

C6_Witness ==
    /\ Len(history) = 1
    /\ fetch(Before(1)) \in DOMAIN makeInstructions
    /\ makeInstructions[fetch(Before(1))].mode = "zeroPageX"
    /\ fetch(Fetched(1)) = 255
    /\ Before(1).X = 2
    /\ getAddress("zeroPageX", Fetched(1)) = 1

(***************************************************************************)
(* C7.  DEX wraps: DEX sets X to 255 when X is 0 and to X - 1 when X is in *)
(* 1..255, and DEY does the same to Y; a register in 0..255 stays there.   *)
(***************************************************************************)
C7_DexWraps ==
    \A i \in DOMAIN history :
       /\ (fetch(Before(i)) = 202 /\ Before(i).X \in 0..255) =>
             /\ After(i).X = IF Before(i).X = 0 THEN 255 ELSE Before(i).X - 1
             /\ After(i).X \in 0..255
       /\ (fetch(Before(i)) = 136 /\ Before(i).Y \in 0..255) =>
             /\ After(i).Y = IF Before(i).Y = 0 THEN 255 ELSE Before(i).Y - 1
             /\ After(i).Y \in 0..255

C7_Witness ==
    /\ Len(history) = 2
    /\ fetch(Before(1)) = 202
    /\ fetch(Before(2)) = 202
    /\ Before(1).X = 0
    /\ Before(2).X = 255
    /\ state.X = 254

\* Every line of the source before the i-th encodes.
EncodesBefore(i) ==
    \A j \in 1 .. i - 1 : encodeLine(source[j]).kind = "return"

\* The line's mnemonic is in the table.
KnownMnemonic(line) ==
    /\ lineMatch(line).matched
    /\ Str(lineMatch(line).mnemonic) \in DOMAIN instructions

\* No matcher of the mnemonic's addressing modes accepts the operand.
NoneAccepts(line) ==
    LET variants == instructions[Str(lineMatch(line).mnemonic)]
    IN \A k \in DOMAIN variants :
          ~(/\ variants[k][1] \in matcherNames
            /\ test(variants[k][1], lineMatch(line).operand))

(***************************************************************************)
(* C8.  Encoding match failure: when a line's mnemonic is in the table and *)
(* none of the mnemonic's addressing-mode matchers accepts the operand,    *)
(* assemble raises the encoding-match error that carries the line and      *)
(* returns no bytes, however many valid lines precede it.                  *)
(***************************************************************************)
C8_EncodingMatchFailure ==
    \A i \in DOMAIN source :
       EncodesBefore(i) /\ KnownMnemonic(source[i]) /\ NoneAccepts(source[i])
       => rom = thrown("Error", source[i])

(***************************************************************************)
(* C9.  Unknown mnemonic: when a line's mnemonic is not in the table,      *)
(* assemble reports an error of its own kind, which is neither the         *)
(* encoding-match error nor the fault of using the missing table entry.    *)
(***************************************************************************)
C9_UnknownMnemonic ==
    \A i \in DOMAIN source :
       /\ EncodesBefore(i)
       /\ lineMatch(source[i]).matched
       /\ Str(lineMatch(source[i]).mnemonic) \notin DOMAIN instructions
       => /\ rom.kind = "throw"
          /\ rom.error \notin {"Error", "TypeError"}

(***************************************************************************)
(* C10.  Illegal opcode: a tick that finds no table entry for the byte at  *)
(* the program counter faults and leaves the whole CPU state as it was     *)
(* before the call.                                                        *)
(***************************************************************************)
C10_IllegalOpcodeUntouched ==
    \A i \in DOMAIN history :
       tickThrows(Before(i)) => After(i) = Before(i)

\* The calls of tick made by the call of run, and the state run was called in.
RunTicks == (running.from + 1)..Len(history)
RunEntry == IF Len(history) > running.from THEN history[running.from + 1]
            ELSE state

(***************************************************************************)
(* C11.  run stops at the first instruction boundary whose byte is the     *)
(* stop opcode: when it has returned the byte at the program counter is    *)
(* the stop opcode, it made no tick when that held on entry, and the byte  *)
(* at the program counter differed from the stop opcode at the start of    *)
(* every tick it made, whatever the operand bytes in between.              *)
(***************************************************************************)
C11_RunStopsAtBoundary ==
    running.status # "none" =>
       /\ running.status = "returned" => fetch(state) = running.stopOpcode
       /\ fetch(RunEntry) = running.stopOpcode => RunTicks = {}
       /\ \A i \in RunTicks : fetch(Before(i)) # running.stopOpcode
       /\ running.status = "running" /\ fetch(state) = running.stopOpcode
          => ~ENABLED (RunLoop /\ history' # history)

\* run has returned after ticks that stepped over an operand byte equal to
\* the stop opcode.
C11_Witness ==
    /\ running.status = "returned"
    /\ RunTicks # {}
    /\ \E a \in RunEntry.programCounter..(state.programCounter - 1) :
          MemGet(state.memory, a) = running.stopOpcode

(***************************************************************************)
(* C12 as stated.  The status register is never written: after any         *)
(* sequence of executed instructions from a fresh CPU it is still 0.       *)
(***************************************************************************)
C12_StatusNeverWritten == state.statusRegister = 0

\* The tick fetched PLP.
IsPLP(i) == fetch(Before(i)) = 40

(***************************************************************************)
(* C12, amended.  Only PLP writes the status register: a tick of PLP sets  *)
(* it to the byte at the stack page plus the raised stack pointer, a tick  *)
(* of any other opcode leaves it as it was, and it is 0 as long as no PLP  *)
(* has been executed.                                                      *)
(***************************************************************************)
C12_OnlyPlpWritesStatus ==
    /\ \A i \in DOMAIN history :
          /\ ~IsPLP(i) =>
                After(i).statusRegister = Before(i).statusRegister
          /\ IsPLP(i) /\ Before(i).stackPointer \in 0..255 =>
                After(i).statusRegister =
                   MemGet(Before(i).memory,
                          STACK_PAGE + Before(i).stackPointer + 1)
    /\ (\A i \in DOMAIN history : ~IsPLP(i)) => state.statusRegister = 0

\* LDA #$FF, PHA, PLP: the status register holds the byte pushed from A.
C12_Witness ==
    /\ Len(history) = 3
    /\ fetch(Before(2)) = 72
    /\ IsPLP(3)
    /\ Before(3).statusRegister = 0
    /\ state.statusRegister = 255

\* The instruction types of the shifts and rotates that take an address.
MemoryShiftTypes == {"ASL", "LSR", "ROL", "ROR"}

\* The shifted or rotated value of the byte v, by the 8-bit arithmetic.
Shifted(type, v) ==
    CASE type = "ASL" -> (v * 2) % 256
      [] type = "LSR" -> v \div 2
      [] type = "ROL" -> ((v * 2) % 256) + (v \div 128)
      [] type = "ROR" -> (v \div 2) + 128 * (v % 2)

(***************************************************************************)
(* C13.  Shifts and rotates with a memory addressing mode operate in       *)
(* place: a tick of ASL, LSR, ROL or ROR through an opcode that has an     *)
(* addressing mode sets the addressed byte to its shifted or rotated value *)
(* and changes nothing else but the program counter; A stays as it was.    *)
(***************************************************************************)
C13_ShiftsInPlace ==
    \A i \in DOMAIN history :
       LET opcode == fetch(Before(i))
       IN (/\ opcode \in DOMAIN makeInstructions
           /\ makeInstructions[opcode].type \in MemoryShiftTypes)
          => LET type == makeInstructions[opcode].type
                 address == getAddress(makeInstructions[opcode].mode, Fetched(i))
             IN InRange(address) =>
                   /\ After(i).A = Before(i).A
                   /\ After(i).memory =
                         MemSet(Before(i).memory, address,
                                Shifted(type, MemGet(Before(i).memory, address)))
                   /\ Registers(After(i)) =
                         Registers([Before(i) EXCEPT !.memory = After(i).memory])

(***************************************************************************)
(* C14.  ROL and ROR are 8-bit rotates on the memory and the accumulator   *)
(* variants: a tick of ROL on an operand value v in 0..255 leaves          *)
(* ((v * 2) mod 256) + (v div 128) in the operand's place, a tick of ROR   *)
(* leaves (v div 2) + 128 * (v mod 2), and the result is again in 0..255.  *)
(***************************************************************************)
C14_RotatesAreEightBit ==
    \A i \in DOMAIN history :
       LET opcode == fetch(Before(i))
       IN opcode \in DOMAIN makeInstructions =>
          LET type == makeInstructions[opcode].type
              address == getAddress(makeInstructions[opcode].mode, Fetched(i))
              v == MemGet(Before(i).memory, address)
          IN /\ (type \in {"ROL", "ROR"} /\ InRange(address)) =>
                   MemGet(After(i).memory, address) = Shifted(type, v)
             /\ (type = "ROL_A" /\ Before(i).A \in 0..255) =>
                   /\ After(i).A = Shifted("ROL", Before(i).A)
                   /\ After(i).A \in 0..255
             /\ (type = "ROR_A" /\ Before(i).A \in 0..255) =>
                   /\ After(i).A = Shifted("ROR", Before(i).A)
                   /\ After(i).A \in 0..255

\* The instruction type the tick executed, "none" for a byte without entry.
TypeOf(i) ==
    IF fetch(Before(i)) \in DOMAIN makeInstructions
    THEN makeInstructions[fetch(Before(i))].type
    ELSE "none"

\* The address the tick's addressing mode resolved to.
AddressOf(i) ==
    getAddress(makeInstructions[fetch(Before(i))].mode, Fetched(i))

(***************************************************************************)
(* C15 as stated.  INC, INX, INY and DEC do not mask their result to 8     *)
(* bits: INX and INY on a register holding 255 leave 256, INC on a memory  *)
(* byte holding 255 leaves 256 in that byte, DEC on a memory byte holding  *)
(* 0 leaves -1.                                                            *)
(***************************************************************************)
C15_NoMasking ==
    \A i \in DOMAIN history :
       /\ (TypeOf(i) = "INX" /\ Before(i).X = 255) => After(i).X = 256
       /\ (TypeOf(i) = "INY" /\ Before(i).Y = 255) => After(i).Y = 256
       /\ (TypeOf(i) = "INC" /\ InRange(AddressOf(i))
              /\ MemGet(Before(i).memory, AddressOf(i)) = 255)
          => MemGet(After(i).memory, AddressOf(i)) = 256
       /\ (TypeOf(i) = "DEC" /\ InRange(AddressOf(i))
              /\ MemGet(Before(i).memory, AddressOf(i)) = 0)
          => MemGet(After(i).memory, AddressOf(i)) = -1

(***************************************************************************)
(* C15, amended.  INX and INY do not mask: they add one to the register,   *)
(* so 255 becomes 256.  INC and DEC act on a byte of memory, which holds   *)
(* 0..255: INC leaves (v + 1) mod 256, so 255 becomes 0, and DEC leaves    *)
(* (v - 1) mod 256, so 0 becomes 255.                                      *)
(***************************************************************************)
C15_RegistersUnmaskedMemoryWraps ==
    \A i \in DOMAIN history :
       /\ (TypeOf(i) = "INX" /\ IsNumber(Before(i).X)) =>
             After(i).X = Before(i).X + 1
       /\ (TypeOf(i) = "INY" /\ IsNumber(Before(i).Y)) =>
             After(i).Y = Before(i).Y + 1
       /\ (TypeOf(i) = "INC" /\ InRange(AddressOf(i))) =>
             MemGet(After(i).memory, AddressOf(i)) =
                (MemGet(Before(i).memory, AddressOf(i)) + 1) % 256
       /\ (TypeOf(i) = "DEC" /\ InRange(AddressOf(i))) =>
             MemGet(After(i).memory, AddressOf(i)) =
                (MemGet(Before(i).memory, AddressOf(i)) + 255) % 256

\* INC on a byte holding 255 has left 0 there.
C15_Witness ==
    /\ Len(history) = 1
    /\ TypeOf(1) = "INC"
    /\ MemGet(Before(1).memory, AddressOf(1)) = 255
    /\ MemGet(state.memory, AddressOf(1)) = 0

\* The little-endian word the memory holds at address a and a + 1.
PointerAt(memory, a) == MemGet(memory, a) + 256 * MemGet(memory, a + 1)

(***************************************************************************)
(* C16.  Indirect zero-page addressing: with the one operand byte b,       *)
(* indirectIndexed resolves to the word stored at b, b + 1 plus Y, and     *)
(* indexedIndirect resolves to the word stored at b + X; the address is a  *)
(* function of the operand byte, the index register and the memory pointed *)
(* to, not of the byte that follows the instruction.                       *)
(***************************************************************************)
C16_IndirectFollowsTable ==
    \A i \in DOMAIN history :
       LET opcode == fetch(Before(i))
           b == fetch(Fetched(i))
           memory == Before(i).memory
       IN opcode \in DOMAIN makeInstructions =>
          /\ (makeInstructions[opcode].mode = "indirectIndexed"
                 /\ Before(i).Y \in 0..255)
             => getAddress("indirectIndexed", Fetched(i)) =
                   PointerAt(memory, b) + Before(i).Y
          /\ (makeInstructions[opcode].mode = "indexedIndirect"
                 /\ Before(i).X \in 0..255)
             => getAddress("indexedIndirect", Fetched(i)) =
                   PointerAt(memory, b + Before(i).X)

\* The line is a three-letter mnemonic that has an absolute variant, a
\* space, "$" and four hexadecimal digits of the class.
AbsoluteLine(line, class) ==
    /\ Len(line) = 9
    /\ line[4] = " "
    /\ line[5] = "$"
    /\ \A k \in 6..9 : line[k] \in class
    /\ Str(SubSeq(line, 1, 3)) \in DOMAIN instructions
    /\ \E k \in DOMAIN instructions[Str(SubSeq(line, 1, 3))] :
          instructions[Str(SubSeq(line, 1, 3))][k][1] = "absolute"

\* The opcode of the line's absolute variant and the value of its digits.
AbsoluteOpcode(line) ==
    LET variants == instructions[Str(SubSeq(line, 1, 3))]
    IN variants[CHOOSE k \in DOMAIN variants : variants[k][1] = "absolute"][2]
WordOf(line) ==
    4096 * hexValue(line[6]) + 256 * hexValue(line[7])
       + 16 * hexValue(line[8]) + hexValue(line[9])

\* The text of one absolute-mode line assembles to the opcode and the word,
\* low byte first, and the executor resolves the two bytes to the word.
AbsoluteRoundTrip(class) ==
    (Len(source) = 1 /\ AbsoluteLine(source[1], class)) =>
       LET w == WordOf(source[1])
       IN /\ rom = returned(<<AbsoluteOpcode(source[1]), w % 256, w \div 256>>)
          /\ (romData = rom.value /\ Len(history) >= 1) =>
                absolute(Fetched(1)) = w

(***************************************************************************)
(* C17 as stated.  For every 16-bit value w written as four hex digits, an *)
(* absolute-mode line "MNEMONIC $HHLL" assembles to [opcode, w mod 256,    *)
(* w div 256] and the executor's absolute addressing mode resolves those   *)
(* two operand bytes to w.                                                 *)
(***************************************************************************)
C17_AbsoluteRoundTrip == AbsoluteRoundTrip(HexAny)

(***************************************************************************)
(* C17, amended.  The same for every w written as four uppercase hex       *)
(* digits (0-9, A-F).                                                      *)
(***************************************************************************)
C17_AbsoluteRoundTripUppercase == AbsoluteRoundTrip(HexUpper)

\* LDA $F90F assembled, loaded and executed: the operand bytes are 0x0F,
\* 0xF9 and the executor resolved them to 0xF90F.
C17_Witness ==
    /\ source = <<<<"L", "D", "A", " ", "$", "F", "9", "0", "F">>>>
    /\ rom.kind = "return"
    /\ rom.value[2] = 15
    /\ rom.value[3] = 249
    /\ romData = rom.value
    /\ Len(history) = 1
    /\ absolute(Fetched(1)) = 63759

\* The bytes of the encodings of the first k lines of the source.
RECURSIVE BytesOfLines(_)
BytesOfLines(k) ==
    IF k = 0 THEN <<>>
    ELSE BytesOfLines(k - 1) \o encodeLine(source[k]).value

\* The source assembled, and its ROM was loaded.
AssembledRun ==
    /\ source # <<>>
    /\ rom.kind = "return"
    /\ romData = rom.value

\* The bytes of the loaded ROM are in the memory of the state as loaded.
RomIntact(s) ==
    \A a \in DOMAIN romData :
       MemGet(s.memory, START_PROGRAM + a - 1) = romData[a]

\* The first k ticks ran without a fault, the lines of the source in turn.
Sequenced(k) ==
    LET before == BytesOfLines(k - 1)
        line == encodeLine(source[k]).value
    IN /\ Before(k).programCounter = START_PROGRAM + Len(before)
       /\ fetch(Before(k)) = line[1]
       /\ After(k).programCounter = START_PROGRAM + Len(before) + Len(line)

\* The ROM is the concatenation of the encodings of the lines.
Concatenated ==
    (rom.kind = "return" /\ romData = <<>>) =>
       rom.value = BytesOfLines(Len(source))

(***************************************************************************)
(* C18 as stated.  For a source of n lines that each assemble and execute  *)
(* without error the ROM is the concatenation of the lines' encodings in   *)
(* source order, and after load on a fresh CPU and k <= n ticks the        *)
(* program counter is 0x200 plus the bytes of the first k lines: the k-th  *)
(* tick fetches the opcode of the k-th line, never an operand byte.        *)
(***************************************************************************)
C18_Sequencing ==
    /\ Concatenated
    /\ (AssembledRun /\ presets = 0) =>
          \A k \in DOMAIN history :
             (k <= Len(source) /\ \A j \in 1..k : ~tickThrows(Before(j)))
             => Sequenced(k)

(***************************************************************************)
(* C18, amended.  The same as long as the bytes of the loaded ROM are      *)
(* still what was loaded at the start of each of the k ticks, that is as   *)
(* long as no executed line (INC, DEC) has stored into the program.        *)
(***************************************************************************)
C18_SequencingUnmodifiedRom ==
    /\ Concatenated
    /\ AssembledRun =>
          \A k \in DOMAIN history :
             (/\ k <= Len(source)
              /\ \A j \in 1..k : ~tickThrows(Before(j)) /\ RomIntact(Before(j)))
             => Sequenced(k)

\* Two lines of different lengths assembled, loaded and executed by two
\* ticks: the program counter is behind the second line.
C18_Witness ==
    /\ AssembledRun
    /\ Len(source) = 2
    /\ Len(encodeLine(source[1]).value) = 3
    /\ Len(encodeLine(source[2]).value) = 2
    /\ Len(history) = 2
    /\ fault = "none"
    /\ RomIntact(Before(2))
    /\ state.programCounter = START_PROGRAM + 5

\* Every tick so far moved the program counter up: by 1, 2 or 3 when it
\* completed, by 1 when it faulted.
CounterAdvances ==
    \A i \in DOMAIN history :
       /\ IsNumber(After(i).programCounter)
       /\ After(i).programCounter - Before(i).programCounter \in
             (IF tickThrows(Before(i)) THEN {1} ELSE {1, 2, 3})

\* The call of run is over: it returned at the stop opcode or a tick faulted.
RunEnded == running.status \in {"returned", "TypeError"}

(***************************************************************************)
(* C19.  Every tick that completes without a fault raises the program      *)
(* counter by 1, 2 or 3 and nothing lowers it, so every call of run ends   *)
(* after finitely many ticks, at the stop opcode or in the fault of a      *)
(* tick: it does not loop forever.                                         *)
(***************************************************************************)
C19_RunTerminates ==
    /\ []CounterAdvances
    /\ (running.status = "running") ~> RunEnded

\* run made ticks of instructions of different lengths and returned.
C19_Witness ==
    /\ running.status = "returned"
    /\ Len(history) >= running.from + 2
    /\ \E i, j \in RunTicks :
          After(i).programCounter - Before(i).programCounter
             # After(j).programCounter - Before(j).programCounter
====
